---- MODULE Spec2Model ----
(***************************************************************************)
(* PacketPrism backend (src/backend/main.py): the text-report parsers, the *)
(* heuristic risk scorer, the PDF story builder, the /analyze request      *)
(* pipeline and the retention sweep over the shared upload directory.      *)
(*                                                                         *)
(* A Python str is a sequence of one-character strings; "\n" is the line   *)
(* feed.  Substring tests, str.split, int(), str(), html.escape and the    *)
(* two regular expressions are computed character by character.            *)
(***************************************************************************)
EXTENDS Integers, Sequences, FiniteSets, TLC

VARIABLES
    pc,                \* position of the request / of the function under call
    filename,          \* file.filename of the request being handled
    expert_info,       \* raw "-z expert" text
    proto_stats,       \* raw "-z io,phs" text
    conv_stats,        \* raw "-z conv,ip" text
    risk_analysis,     \* result of calculate_risk
    parsed_protocols,  \* result of parse_phs
    parsed_hosts,      \* result of parse_conv
    data,              \* the dict handed to generate_pdf_file
    story,             \* the flowables generate_pdf_file has built
    calls,             \* the tshark invocations of the current request, with how each ended
    response,          \* what analyze_pcap returned
    files,             \* UPLOAD_DIR: file name -> st_mtime, or Absent
    clock,             \* time.time(), in seconds
    served,            \* number of requests accepted so far
    sweeps             \* the cleanup_old_files runs: one record per background task

vars == <<pc, filename, expert_info, proto_stats, conv_stats, risk_analysis,
          parsed_protocols, parsed_hosts, data, story, calls, response,
          files, clock, served, sweeps>>

(***************************************************************************)
(* Characters and strings                                                  *)
(***************************************************************************)
NL == "\n"
SP == " "

Digits == <<"0", "1", "2", "3", "4", "5", "6", "7", "8", "9">>

Letters == {"a", "b", "c", "d", "e", "f", "g", "h", "i", "j", "k", "l", "m",
            "n", "o", "p", "q", "r", "s", "t", "u", "v", "w", "x", "y", "z",
            "A", "B", "C", "D", "E", "F", "G", "H", "I", "J", "K", "L", "M",
            "N", "O", "P", "Q", "R", "S", "T", "U", "V", "W", "X", "Y", "Z"}

\* the classes \d, \w and \s of the re module, over the ASCII characters
IsDigit(c) == \E d \in 1..10 : Digits[d] = c
IsWord(c) == c \in Letters \/ IsDigit(c) \/ c = "_"
IsSpace(c) == c \in {" ", "\t", "\n", "\r", "\f"}

DigitValue(c) == (CHOOSE d \in 1..10 : Digits[d] = c) - 1

\* needle in hay
Contains(hay, needle) ==
    \E i \in 1..(Len(hay) - Len(needle) + 1) :
        SubSeq(hay, i, i + Len(needle) - 1) = needle

\* s.startswith(lit, i - 1), for the literal parts of the patterns
LitAt(s, i, lit) ==
    /\ i + Len(lit) - 1 <= Len(s)
    /\ SubSeq(s, i, i + Len(lit) - 1) = lit

\* s.split('\n'): the pieces between consecutive line feeds, one more than
\* there are line feeds
split(s) ==
    LET nl == {i \in 1..Len(s) : s[i] = NL}
        cut(k) == IF k = 0 THEN 0
                  ELSE IF k > Cardinality(nl) THEN Len(s) + 1
                  ELSE CHOOSE p \in nl : Cardinality({q \in nl : q < p}) = k - 1
    IN  [k \in 1..(Cardinality(nl) + 1) |-> SubSeq(s, cut(k - 1) + 1, cut(k) - 1)]

RECURSIVE join(_)
\* '\n'.join(lines)
join(lines) ==
    IF Len(lines) = 0 THEN <<>>
    ELSE IF Len(lines) = 1 THEN lines[1]
    ELSE lines[1] \o <<NL>> \o join(Tail(lines))

RECURSIVE int(_)
\* int(s) for a non-empty run of decimal digits
int(s) ==
    IF Len(s) = 0 THEN 0
    ELSE 10 * int(SubSeq(s, 1, Len(s) - 1)) + DigitValue(s[Len(s)])

RECURSIVE str(_)
\* str(n) for an integer n >= 0
str(n) ==
    IF n < 10 THEN <<Digits[n + 1]>>
    ELSE Append(str(n \div 10), Digits[(n % 10) + 1])

\* the end (exclusive) of the longest run of digits / word characters /
\* white space starting at i; i itself when the run is empty
RECURSIVE DigitsEnd(_, _)
DigitsEnd(s, i) == IF i <= Len(s) /\ IsDigit(s[i]) THEN DigitsEnd(s, i + 1) ELSE i
RECURSIVE WordEnd(_, _)
WordEnd(s, i) == IF i <= Len(s) /\ IsWord(s[i]) THEN WordEnd(s, i + 1) ELSE i
RECURSIVE SpaceEnd(_, _)
SpaceEnd(s, i) == IF i <= Len(s) /\ IsSpace(s[i]) THEN SpaceEnd(s, i + 1) ELSE i

(***************************************************************************)
(* calculate_risk                                                          *)
(***************************************************************************)
MarkerError == <<"E", "r", "r", "o", "r">>
MarkerWarn == <<"W", "a", "r", "n">>
MarkerTelnet == <<"T", "e", "l", "n", "e", "t">>
MarkerIRC == <<"I", "R", "C">>
MarkerDNS == <<"D", "N", "S">>

ReasonError == "Critical Expert Errors detected (Potential Malformed Packets/Attacks)"
ReasonWarn == "Expert Warnings found in traffic stream"
ReasonLegacy == "Insecure/Legacy protocols detected (Telnet/IRC)"
ReasonDNS == "Anomalous DNS-only traffic pattern (Potential C2/Exfiltration)"
ReasonNone == "No major anomalies detected."

ScoreError == 40
ScoreWarn == 20
ScoreLegacy == 30
ScoreDNS == 15
DnsLineLimit == 5
HighThreshold == 70
MediumThreshold == 30
ScoreCap == 100

Min(a, b) == IF a < b THEN a ELSE b

\* lines 68-73: the diagnostics rule, as <<contribution, reasons>>
diag_rule_no_elif(expert) ==
    IF Contains(expert, MarkerError) /\ Contains(expert, MarkerWarn)
    THEN <<ScoreError + ScoreWarn, <<ReasonError, ReasonWarn>>>>
    ELSE IF Contains(expert, MarkerError) THEN <<ScoreError, <<ReasonError>>>>
    ELSE IF Contains(expert, MarkerWarn) THEN <<ScoreWarn, <<ReasonWarn>>>>
    ELSE <<0, <<>>>>

diag_rule(expert) ==
    IF Contains(expert, MarkerError) THEN <<ScoreError, <<ReasonError>>>>
    ELSE IF Contains(expert, MarkerWarn) THEN <<ScoreWarn, <<ReasonWarn>>>>
    ELSE <<0, <<>>>>

\* lines 75-77: the legacy-protocol rule
legacy_rule(proto) ==
    IF Contains(proto, MarkerTelnet) \/ Contains(proto, MarkerIRC)
    THEN <<ScoreLegacy, <<ReasonLegacy>>>>
    ELSE <<0, <<>>>>

\* lines 79-81: the DNS-only rule
dns_rule(proto) ==
    IF Contains(proto, MarkerDNS) /\ Len(split(proto)) < DnsLineLimit
    THEN <<ScoreDNS, <<ReasonDNS>>>>
    ELSE <<0, <<>>>>

\* lines 83-85
level_of_strict(score) ==
    IF score > HighThreshold THEN "High"
    ELSE IF score > MediumThreshold THEN "Medium"
    ELSE "Low"

level_of(score) ==
    IF score >= HighThreshold THEN "High"
    ELSE IF score >= MediumThreshold THEN "Medium"
    ELSE "Low"

\* line 87: reasons if reasons else [default]
reasons_or_default_always(reasons) == Append(reasons, ReasonNone)

reasons_or_default(reasons) ==
    IF reasons # <<>> THEN reasons ELSE <<ReasonNone>>

calculate_risk(expert, proto) ==
    LET r1 == diag_rule(expert)
        r2 == legacy_rule(proto)
        r3 == dns_rule(proto)
        score == r1[1] + r2[1] + r3[1]
        reasons == r1[2] \o r2[2] \o r3[2]
    IN  [score |-> Min(score, ScoreCap),
         level |-> level_of(score),
         reasons |-> reasons_or_default(reasons)]

(***************************************************************************)
(* parse_phs                                                               *)
(***************************************************************************)
KwFrames == <<"f", "r", "a", "m", "e", "s", ":">>
KwBytes == <<"b", "y", "t", "e", "s", ":">>
KwArrow == <<"<", "-", ">">>

PhsLimit == 8
ConvLimit == 10

\* line 37: (\w+)\s+frames:(\d+)\s+bytes:(\d+) anchored at position i of the
\* line; <<groups>> on a match, <<>> otherwise.  Every quantified run is
\* followed by a character outside its class, so the greedy run is the only
\* candidate.
phs_match_at(s, i) ==
    LET w == WordEnd(s, i)
        s1 == SpaceEnd(s, w)
        f == s1 + Len(KwFrames)
        d1 == DigitsEnd(s, f)
        s2 == SpaceEnd(s, d1)
        b == s2 + Len(KwBytes)
        d2 == DigitsEnd(s, b)
    IN  IF /\ w > i
           /\ s1 > w
           /\ LitAt(s, s1, KwFrames)
           /\ d1 > f
           /\ s2 > d1
           /\ LitAt(s, s2, KwBytes)
           /\ d2 > b
        THEN <<<<SubSeq(s, i, w - 1), SubSeq(s, f, d1 - 1), SubSeq(s, b, d2 - 1)>>>>
        ELSE <<>>

RECURSIVE phs_search_from(_, _)
\* re.search: the match at the leftmost position that has one
phs_search_from(s, i) ==
    IF i > Len(s) THEN <<>>
    ELSE IF phs_match_at(s, i) # <<>> THEN phs_match_at(s, i)
    ELSE phs_search_from(s, i + 1)

phs_search(line) == phs_search_from(line, 1)

\* lines 39-43: the record appended for a match
phs_record(m) ==
    [protocol |-> m[1], packets |-> int(m[2]), bytes |-> int(m[3])]

RECURSIVE phs_collect(_)
\* lines 36-43: the loop over the lines
phs_collect(lines) ==
    IF lines = <<>> THEN <<>>
    ELSE LET m == phs_search(Head(lines))
         IN  (IF m # <<>> THEN <<phs_record(m[1])>> ELSE <<>>)
             \o phs_collect(Tail(lines))

\* data[:n]
Prefix(seq, n) == SubSeq(seq, 1, Min(n, Len(seq)))

\* line 44 in the variants where the truncation keeps 9 records
phs_truncate_off_by_one(recs) == Prefix(recs, PhsLimit + 1)

\* line 44
phs_truncate(recs) == Prefix(recs, PhsLimit)

parse_phs(phs_output) == phs_truncate(phs_collect(split(phs_output)))

(***************************************************************************)
(* parse_conv                                                              *)
(***************************************************************************)
\* \d+\.\d+\.\d+\.\d+ anchored at i: the end (exclusive) of the address, or 0
ipv4_end(s, i) ==
    LET a == DigitsEnd(s, i)
        b == DigitsEnd(s, a + 1)
        c == DigitsEnd(s, b + 1)
        d == DigitsEnd(s, c + 1)
    IN  IF /\ a > i /\ LitAt(s, a, <<".">>)
           /\ b > a + 1 /\ LitAt(s, b, <<".">>)
           /\ c > b + 1 /\ LitAt(s, c, <<".">>)
           /\ d > c + 1
        THEN d ELSE 0

\* line 51, anchored at position i of the line
conv_match_at(s, i) ==
    LET e1 == ipv4_end(s, i)
        s1 == SpaceEnd(s, e1)
        a == s1 + Len(KwArrow)
        s2 == SpaceEnd(s, a)
        e2 == ipv4_end(s, s2)
        n1 == SpaceEnd(s, e2)
        m1 == DigitsEnd(s, n1)
        n2 == SpaceEnd(s, m1)
        m2 == DigitsEnd(s, n2)
        n3 == SpaceEnd(s, m2)
        m3 == DigitsEnd(s, n3)
        n4 == SpaceEnd(s, m3)
        m4 == DigitsEnd(s, n4)
    IN  IF /\ e1 > 0
           /\ s1 > e1
           /\ LitAt(s, s1, KwArrow)
           /\ s2 > a
           /\ e2 > 0
           /\ n1 > e2 /\ m1 > n1
           /\ n2 > m1 /\ m2 > n2
           /\ n3 > m2 /\ m3 > n3
           /\ n4 > m3 /\ m4 > n4
        THEN <<<<SubSeq(s, i, e1 - 1), SubSeq(s, s2, e2 - 1),
                 SubSeq(s, n1, m1 - 1), SubSeq(s, n2, m2 - 1),
                 SubSeq(s, n3, m3 - 1), SubSeq(s, n4, m4 - 1)>>>>
        ELSE <<>>

RECURSIVE conv_search_from(_, _)
conv_search_from(s, i) ==
    IF i > Len(s) THEN <<>>
    ELSE IF conv_match_at(s, i) # <<>> THEN conv_match_at(s, i)
    ELSE conv_search_from(s, i + 1)

conv_search(line) == conv_search_from(line, 1)

\* lines 53-60
conv_record(m) ==
    [src |-> m[1], dst |-> m[2], packets |-> int(m[3]), bytes |-> int(m[4]),
     total_packets |-> int(m[5]), total_bytes |-> int(m[6])]

RECURSIVE conv_collect(_)
\* lines 50-60
conv_collect(lines) ==
    IF lines = <<>> THEN <<>>
    ELSE LET m == conv_search(Head(lines))
         IN  (IF m # <<>> THEN <<conv_record(m[1])>> ELSE <<>>)
             \o conv_collect(Tail(lines))

\* the number of leading records of recs that stay in front of x when x is
\* inserted: those whose total_bytes is >= x's (a stable descending order)
RECURSIVE keep_before(_, _)
keep_before(recs, x) ==
    IF recs = <<>> \/ Head(recs).total_bytes < x.total_bytes THEN 0
    ELSE 1 + keep_before(Tail(recs), x)

insert_desc(recs, x) ==
    LET k == keep_before(recs, x)
    IN  SubSeq(recs, 1, k) \o <<x>> \o SubSeq(recs, k + 1, Len(recs))

RECURSIVE sorted_desc_from(_, _)
sorted_desc_from(acc, rest) ==
    IF rest = <<>> THEN acc
    ELSE sorted_desc_from(insert_desc(acc, Head(rest)), Tail(rest))

\* sorted(data, key=lambda x: x['total_bytes'], reverse=True): stable
sorted_by_total_bytes(recs) == sorted_desc_from(<<>>, recs)

\* line 61 with the slice taken before the sort
conv_top_truncate_first(recs) == sorted_by_total_bytes(Prefix(recs, ConvLimit))

\* line 61
conv_top(recs) == Prefix(sorted_by_total_bytes(recs), ConvLimit)

parse_conv(conv_output) == conv_top(conv_collect(split(conv_output)))

(***************************************************************************)
(* generate_pdf_file: the story handed to doc.build                        *)
(***************************************************************************)
\* d.get(k, default)
Get(d, k, default) == IF k \in DOMAIN d THEN d[k] ELSE default

escape_char(c) ==
    IF c = "&" THEN <<"&", "a", "m", "p", ";">>
    ELSE IF c = "<" THEN <<"&", "l", "t", ";">>
    ELSE IF c = ">" THEN <<"&", "g", "t", ";">>
    ELSE IF c = "\"" THEN <<"&", "q", "u", "o", "t", ";">>
    ELSE IF c = "'" THEN <<"&", "#", "x", "2", "7", ";">>
    ELSE <<c>>

RECURSIVE html_escape(_)
\* html.escape(s)
html_escape(s) ==
    IF s = <<>> THEN <<>> ELSE escape_char(Head(s)) \o html_escape(Tail(s))

NotAvailable == <<"N", "/", "A">>

\* the flowables; the text of a Paragraph is the sequence of the parts of
\* its f-string, literal parts as given in the source
Paragraph(parts, style) == [kind |-> "Paragraph", style |-> style, text |-> parts]
Spacer == [kind |-> "Spacer"]
Preformatted(text) == [kind |-> "Preformatted", text |-> text]
Table(rows) == [kind |-> "Table", rows |-> rows]

\* lines 166-171; "(bullet) " stands for U+2022 and a space.  The reason texts of calculate_risk hold none of the five
\* characters html.escape rewrites.
reason_paragraphs(reasons) ==
    IF reasons # <<>>
    THEN [i \in 1..Len(reasons) |-> Paragraph(<<"(bullet) ", reasons[i]>>, "Normal")]
    ELSE <<Paragraph(<<"No anomalies detected.">>, "Normal")>>

\* lines 184-189
host_row(h) ==
    <<html_escape(Get(h, "src", NotAvailable)),
      html_escape(Get(h, "dst", NotAvailable)),
      str(Get(h, "total_bytes", 0)) \o <<" ", "B">>,
      str(Get(h, "total_packets", 0))>>

TableHeader == <<"Source", "Destination", "Bytes", "Packets">>

\* lines 180-202: what follows the section heading
top_talkers_section(hosts) ==
    IF hosts # <<>>
    THEN <<Table(<<TableHeader>> \o [i \in 1..Len(hosts) |-> host_row(hosts[i])])>>
    ELSE <<>>

TopTalkersHeading ==
    Paragraph(<<"Host Communication Analysis (Top Talkers)">>, "Heading2")

\* lines 159-202
pdf_story(d) ==
    LET risk == Get(d, "risk", [level |-> "N/A", score |-> 0, reasons |-> <<>>])
    IN  <<Paragraph(<<"PacketPrism Forensics Report">>, "Title"),
          Paragraph(<<"File: ", html_escape(Get(d, "filename", <<"U", "n", "k", "n", "o", "w", "n">>))>>,
                    "Normal"),
          Spacer,
          Paragraph(<<"Risk Assessment: ", Get(risk, "level", "N/A"), " (Score: ",
                      str(Get(risk, "score", 0)), ")">>, "Heading2")>>
        \o reason_paragraphs(Get(risk, "reasons", <<>>))
        \o <<Spacer,
             Paragraph(<<"Protocol Hierarchy">>, "Heading2"),
             Preformatted(Get(d, "protocol_hierarchy", "No hierarchy data available.")),
             Spacer,
             TopTalkersHeading>>
        \o top_talkers_section(Get(d, "top_talkers", <<>>))

(***************************************************************************)
(* Values of the variables a run does not use                              *)
(***************************************************************************)
NoRisk == [score |-> 0, level |-> "unset", reasons |-> <<>>]
NoData == [filename |-> <<>>]
NoResponse == [status |-> "none"]
Absent == 0 - 1

\* line 122: f"report_{file.filename}.pdf"
report_name(name) ==
    <<"r", "e", "p", "o", "r", "t", "_">> \o name \o <<".", "p", "d", "f">>

\* the names uploads arrive under, and every name UPLOAD_DIR can then hold
UploadNames == {<<"a">>, <<"b">>}
FileNames == UploadNames \cup {report_name(n) : n \in UploadNames}

SeqsUpTo(S, n) == UNION {[1..k -> S] : k \in 0..n}

RequestIdle == filename = <<>> /\ calls = <<>> /\ response = NoResponse
StorageIdle ==
    /\ files = [f \in FileNames |-> Absent]
    /\ clock = 0
    /\ served = 0
    /\ sweeps = <<>>
PdfIdle == data = NoData /\ story = <<>>

(***************************************************************************)
(* calculate_risk on its own: the inputs are drawn in Init, the call is    *)
(* the only step                                                           *)
(***************************************************************************)
MaxRiskLines == 5

ExpertTexts ==
    {<<>>,
     MarkerError,
     MarkerWarn,
     MarkerWarn \o <<"i", "n", "g">>,
     MarkerError \o <<NL>> \o MarkerWarn,
     MarkerWarn \o <<SP>> \o MarkerError,
     <<"e", "r", "r", "o", "r">>}

RiskLines ==
    {MarkerTelnet, MarkerIRC, MarkerDNS, <<"d", "n", "s">>}

RiskHierarchyTexts == {join(ls) : ls \in SeqsUpTo(RiskLines, MaxRiskLines)}

InitRisk ==
    /\ pc = "call"
    /\ expert_info \in ExpertTexts
    /\ proto_stats \in RiskHierarchyTexts
    /\ conv_stats = <<>>
    /\ risk_analysis = NoRisk
    /\ parsed_protocols = <<>>
    /\ parsed_hosts = <<>>
    /\ PdfIdle /\ RequestIdle /\ StorageIdle

CallCalculateRisk ==
    /\ pc = "call"
    /\ risk_analysis' = calculate_risk(expert_info, proto_stats)
    /\ pc' = "done"
    /\ UNCHANGED <<filename, expert_info, proto_stats, conv_stats,
                   parsed_protocols, parsed_hosts, data, story, calls,
                   response, files, clock, served, sweeps>>

SpecRisk == InitRisk /\ [][CallCalculateRisk]_vars

(***************************************************************************)
(* parse_phs on its own                                                    *)
(***************************************************************************)
MaxPhsLines == 9

LineTcp == <<"t", "c", "p", " ">> \o KwFrames \o <<"1", "2", "0", " ">>
           \o KwBytes \o <<"1", "5", "0", "0", "0">>
LineDns == <<"d", "n", "s", " ">> \o KwFrames \o <<"5", " ">>
           \o KwBytes \o <<"4", "0", "0">>
\* indented, as tshark prints a nested protocol
LineUdpIndented == <<" ", " ", "u", "d", "p", " ">> \o KwFrames \o <<"7", " ">>
                   \o KwBytes \o <<"9", "0">>
\* no protocol token in front of frames:
LineNoProto == KwFrames \o <<"7", " ">> \o KwBytes \o <<"9">>

PhsLines == {LineTcp, LineUdpIndented, LineNoProto}

PhsTexts == {join(ls) : ls \in SeqsUpTo(PhsLines, MaxPhsLines)}

InitPhs ==
    /\ pc = "call"
    /\ proto_stats \in PhsTexts
    /\ expert_info = <<>>
    /\ conv_stats = <<>>
    /\ risk_analysis = NoRisk
    /\ parsed_protocols = <<>>
    /\ parsed_hosts = <<>>
    /\ PdfIdle /\ RequestIdle /\ StorageIdle

CallParsePhs ==
    /\ pc = "call"
    /\ parsed_protocols' = parse_phs(proto_stats)
    /\ pc' = "done"
    /\ UNCHANGED <<filename, expert_info, proto_stats, conv_stats,
                   risk_analysis, parsed_hosts, data, story, calls,
                   response, files, clock, served, sweeps>>

SpecPhs == InitPhs /\ [][CallParsePhs]_vars

(***************************************************************************)
(* parse_conv on its own.  A text is up to MaxConvEdge arbitrary lines, a  *)
(* run of up to MaxConvFill equal conversation lines, and up to            *)
(* MaxConvEdge arbitrary lines again.                                      *)
(***************************************************************************)
MaxConvEdge == 2
MaxConvFill == 10

Ip1 == <<"1", "0", ".", "0", ".", "0", ".", "1">>
Ip2 == <<"1", "0", ".", "0", ".", "0", ".", "2">>
Ip3 == <<"1", "0", ".", "0", ".", "0", ".", "3">>
Arrow == <<" ">> \o KwArrow \o <<" ">>

\* 10.0.0.1 <-> 10.0.0.2 3 300 5 500
LineConvFill == Ip1 \o Arrow \o Ip2
                \o <<" ", "3", " ", "3", "0", "0", " ", "5", " ", "5", "0", "0">>
\* 10.0.0.3 <-> 10.0.0.1 1 100 2 500: the same total_bytes, other hosts
LineConvTie == Ip3 \o Arrow \o Ip1
               \o <<" ", "1", " ", "1", "0", "0", " ", "2", " ", "5", "0", "0">>
\* 10.0.0.2 <-> 10.0.0.3 9 900 80 50000
LineConvBig == Ip2 \o Arrow \o Ip3
               \o <<" ", "9", " ", "9", "0", "0", " ", "8", "0", " ",
                    "5", "0", "0", "0", "0">>
\* a table header: no conversation
LineConvHeader == <<"I", "P", "v", "4", " ">> \o KwArrow \o <<" ", "|">>

ConvEdgeLines == {LineConvTie, LineConvBig, LineConvHeader}

ConvTexts ==
    {join(h \o [i \in 1..n |-> LineConvFill] \o t) :
        h \in SeqsUpTo(ConvEdgeLines, MaxConvEdge),
        n \in 0..MaxConvFill,
        t \in SeqsUpTo(ConvEdgeLines, MaxConvEdge)}

InitConv ==
    /\ pc = "call"
    /\ conv_stats \in ConvTexts
    /\ expert_info = <<>>
    /\ proto_stats = <<>>
    /\ risk_analysis = NoRisk
    /\ parsed_protocols = <<>>
    /\ parsed_hosts = <<>>
    /\ PdfIdle /\ RequestIdle /\ StorageIdle

CallParseConv ==
    /\ pc = "call"
    /\ parsed_hosts' = parse_conv(conv_stats)
    /\ pc' = "done"
    /\ UNCHANGED <<filename, expert_info, proto_stats, conv_stats,
                   risk_analysis, parsed_protocols, data, story, calls,
                   response, files, clock, served, sweeps>>

SpecConv == InitConv /\ [][CallParseConv]_vars

(***************************************************************************)
(* generate_pdf_file on its own                                            *)
(***************************************************************************)
MaxHosts == 3

HostPool ==
    {[src |-> Ip1, dst |-> Ip2, packets |-> 3, bytes |-> 300,
      total_packets |-> 5, total_bytes |-> 500],
     [src |-> Ip2, dst |-> Ip3, packets |-> 9, bytes |-> 900,
      total_packets |-> 80, total_bytes |-> 50000],
     [src |-> <<"<", "x", ">">>, dst |-> Ip1, packets |-> 0, bytes |-> 0,
      total_packets |-> 0, total_bytes |-> 0]}

PdfInputs ==
    LET base == {[filename |-> n, risk |-> calculate_risk(e, LineDns),
                  protocol_hierarchy |-> LineDns] :
                    n \in {<<"a">>, <<"<", "b", ">">>},
                    e \in {<<>>, MarkerError}}
    IN  base \cup
        {[filename |-> d.filename, risk |-> d.risk,
          protocol_hierarchy |-> d.protocol_hierarchy, top_talkers |-> hs] :
            d \in base, hs \in SeqsUpTo(HostPool, MaxHosts)}

InitPdf ==
    /\ pc = "call"
    /\ data \in PdfInputs
    /\ story = <<>>
    /\ expert_info = <<>>
    /\ proto_stats = <<>>
    /\ conv_stats = <<>>
    /\ risk_analysis = NoRisk
    /\ parsed_protocols = <<>>
    /\ parsed_hosts = <<>>
    /\ RequestIdle /\ StorageIdle

\* generate_pdf_file(data, "uploads/report_a.pdf"): the story is built, then
\* doc.build and the write either succeed or raise (lines 204-210)
CallGeneratePdf ==
    /\ pc = "call"
    /\ story' = pdf_story(data)
    /\ \/ /\ files' = [files EXCEPT ![report_name(<<"a">>)] = clock]
          /\ pc' = "done"
       \/ /\ UNCHANGED files
          /\ pc' = "raised"
    /\ UNCHANGED <<filename, expert_info, proto_stats, conv_stats,
                   risk_analysis, parsed_protocols, parsed_hosts, data, calls,
                   response, clock, served, sweeps>>

SpecPdf == InitPdf /\ [][CallGeneratePdf]_vars

(***************************************************************************)
(* The service: /analyze requests handled one at a time on the event loop, *)
(* and the cleanup_old_files runs they schedule, each on a worker thread,  *)
(* all on the one UPLOAD_DIR                                               *)
(***************************************************************************)
MaxRequests == 2
MaxTicks == 2

RetentionSeconds == 1800
\* the clock moves in steps of just over half the retention window
Tick == RetentionSeconds \div 2 + 1

\* what tshark can print for each report mode
ExampleHierarchy == join(<<LineTcp, LineDns>>)
ProtoOutputs == {ExampleHierarchy, join(<<MarkerTelnet, MarkerDNS>>)}
ExpertOutputs == {<<>>, MarkerError}
ConvOutputs == {<<>>, join(<<LineConvHeader, LineConvFill, LineConvBig>>)}

NoSweep == [pc |-> "done", now |-> 0, todo |-> {}, cur |-> <<>>]

\* line 30: os.makedirs(UPLOAD_DIR, exist_ok=True).  The directory is new, or
\* it is the one an earlier run of the service left behind, holding a
\* capture and its report.
EmptyDir == [f \in FileNames |-> Absent]
LeftoverDir ==
    [f \in FileNames |->
        IF f \in {<<"a">>, report_name(<<"a">>)} THEN 0 ELSE Absent]

Init ==
    /\ pc = "idle"
    /\ filename = <<>>
    /\ expert_info = <<>>
    /\ proto_stats = <<>>
    /\ conv_stats = <<>>
    /\ risk_analysis = NoRisk
    /\ parsed_protocols = <<>>
    /\ parsed_hosts = <<>>
    /\ data = NoData
    /\ story = <<>>
    /\ calls = <<>>
    /\ response = NoResponse
    /\ files \in {EmptyDir, LeftoverDir}
    /\ clock = 0
    /\ served = 0
    /\ sweeps = <<>>

\* lines 91-93: the upload is written under its own name
Accept(name) ==
    /\ pc = "idle"
    /\ served < MaxRequests
    /\ served' = served + 1
    /\ filename' = name
    /\ files' = [files EXCEPT ![name] = clock]
    /\ expert_info' = <<>>
    /\ proto_stats' = <<>>
    /\ conv_stats' = <<>>
    /\ risk_analysis' = NoRisk
    /\ parsed_protocols' = <<>>
    /\ parsed_hosts' = <<>>
    /\ data' = NoData
    /\ story' = <<>>
    /\ calls' = <<>>
    /\ response' = NoResponse
    /\ pc' = "phs"
    /\ UNCHANGED <<clock, sweeps>>

\* lines 140-141
error_payload(message) == [status |-> "error", message |-> message]

\* a handler that logs the failed invocation and goes on with an empty text
InvocationFails_swallowed(mode) ==
    /\ pc = mode
    /\ calls' = Append(calls, [mode |-> mode, ok |-> FALSE])
    /\ pc' = IF mode = "phs" THEN "expert"
             ELSE IF mode = "expert" THEN "conv" ELSE "analyze"
    /\ UNCHANGED <<filename, expert_info, proto_stats, conv_stats,
                   risk_analysis, parsed_protocols, parsed_hosts, data, story,
                   response, files, clock, served, sweeps>>

\* subprocess.check_output raises: tshark is missing, cannot read the file
\* or exits non-zero (or its output does not decode); the handler returns
\* the error payload
InvocationFails(mode) ==
    /\ pc = mode
    /\ calls' = Append(calls, [mode |-> mode, ok |-> FALSE])
    /\ response' = error_payload("tshark failed")
    /\ pc' = "idle"
    /\ UNCHANGED <<filename, expert_info, proto_stats, conv_stats,
                   risk_analysis, parsed_protocols, parsed_hosts, data, story,
                   files, clock, served, sweeps>>

\* lines 97-99
GetProtocolStats ==
    \/ /\ pc = "phs"
       /\ files[filename] # Absent
       /\ \E out \in ProtoOutputs : proto_stats' = out
       /\ calls' = Append(calls, [mode |-> "phs", ok |-> TRUE])
       /\ pc' = "expert"
       /\ UNCHANGED <<filename, expert_info, conv_stats, risk_analysis,
                      parsed_protocols, parsed_hosts, data, story, response,
                      files, clock, served, sweeps>>
    \/ InvocationFails("phs")

\* lines 102-104
GetExpertInfo ==
    \/ /\ pc = "expert"
       /\ files[filename] # Absent
       /\ \E out \in ExpertOutputs : expert_info' = out
       /\ calls' = Append(calls, [mode |-> "expert", ok |-> TRUE])
       /\ pc' = "conv"
       /\ UNCHANGED <<filename, proto_stats, conv_stats, risk_analysis,
                      parsed_protocols, parsed_hosts, data, story, response,
                      files, clock, served, sweeps>>
    \/ InvocationFails("expert")

\* lines 107-109
GetConversations ==
    \/ /\ pc = "conv"
       /\ files[filename] # Absent
       /\ \E out \in ConvOutputs : conv_stats' = out
       /\ calls' = Append(calls, [mode |-> "conv", ok |-> TRUE])
       /\ pc' = "analyze"
       /\ UNCHANGED <<filename, expert_info, proto_stats, risk_analysis,
                      parsed_protocols, parsed_hosts, data, story, response,
                      files, clock, served, sweeps>>
    \/ InvocationFails("conv")

\* lines 111-123
Analyze ==
    /\ pc = "analyze"
    /\ risk_analysis' = calculate_risk(expert_info, proto_stats)
    /\ parsed_protocols' = parse_phs(proto_stats)
    /\ parsed_hosts' = parse_conv(conv_stats)
    /\ data' = [filename |-> filename,
                risk |-> risk_analysis',
                protocol_hierarchy |-> proto_stats,
                top_talkers |-> parsed_hosts']
    /\ pc' = "pdf"
    /\ UNCHANGED <<filename, expert_info, proto_stats, conv_stats, story,
                   calls, response, files, clock, served, sweeps>>

\* lines 129-139
success_payload ==
    [status |-> "success",
     filename |-> filename,
     protocol_hierarchy |-> proto_stats,
     protocols_chart |-> parsed_protocols,
     top_talkers |-> parsed_hosts,
     expert_info |-> expert_info,
     risk |-> risk_analysis,
     report_url |-> <<"/", "d", "o", "w", "n", "l", "o", "a", "d", "/">>
                    \o report_name(filename)]

\* line 215 on: a run that has not started yet
new_sweep == [pc |-> "start", now |-> 0, todo |-> {}, cur |-> <<>>]

\* lines 124-141: the report is written, the sweep is scheduled and the
\* result returned; or generate_pdf_file raises and the error is returned
GenerateReport ==
    \/ /\ pc = "pdf"
       /\ story' = pdf_story(data)
       /\ files' = [files EXCEPT ![report_name(filename)] = clock]
       /\ sweeps' = Append(sweeps, new_sweep)
       /\ response' = success_payload
       /\ pc' = "idle"
       /\ UNCHANGED <<filename, expert_info, proto_stats, conv_stats,
                      risk_analysis, parsed_protocols, parsed_hosts, data,
                      calls, clock, served>>
    \/ /\ pc = "pdf"
       /\ story' = pdf_story(data)
       /\ response' = error_payload("report generation failed")
       /\ pc' = "idle"
       /\ UNCHANGED <<filename, expert_info, proto_stats, conv_stats,
                      risk_analysis, parsed_protocols, parsed_hosts, data,
                      calls, files, clock, served, sweeps>>

requestVars == <<pc, filename, expert_info, proto_stats, conv_stats,
                 risk_analysis, parsed_protocols, parsed_hosts, data, story,
                 calls, response, served>>

\* lines 215-216: now = time.time(); os.listdir(UPLOAD_DIR).  The loop takes
\* the listed names in whatever order the listing has.
SweepStart(i) ==
    /\ sweeps[i].pc = "start"
    /\ sweeps' = [sweeps EXCEPT ![i] =
                     [pc |-> "next", now |-> clock,
                      todo |-> {f \in FileNames : files[f] # Absent},
                      cur |-> <<>>]]
    /\ UNCHANGED <<requestVars, files, clock>>

\* lines 216-219: the next name, and os.path.isfile on it
SweepNext(i) ==
    /\ sweeps[i].pc = "next"
    /\ \/ /\ sweeps[i].todo = {}
          /\ sweeps' = [sweeps EXCEPT ![i] = NoSweep]
       \/ \E f \in sweeps[i].todo :
              sweeps' = [sweeps EXCEPT ![i] =
                  [pc |-> IF files[f] # Absent THEN "stat" ELSE "next",
                   now |-> sweeps[i].now,
                   todo |-> sweeps[i].todo \ {f},
                   cur |-> f]]
    /\ UNCHANGED <<requestVars, files, clock>>

\* a run that ended with an exception
raised_sweep == [pc |-> "raised", now |-> 0, todo |-> {}, cur |-> <<>>]

\* line 219: os.stat(f_path).st_mtime < now - 1800; os.stat raises
\* FileNotFoundError when the file is gone, outside any try
SweepStat(i) ==
    /\ sweeps[i].pc = "stat"
    /\ sweeps' = [sweeps EXCEPT ![i] =
           IF files[sweeps[i].cur] = Absent THEN raised_sweep
           ELSE [sweeps[i] EXCEPT !.pc =
                    IF files[sweeps[i].cur] < sweeps[i].now - RetentionSeconds
                    THEN "remove" ELSE "next"]]
    /\ UNCHANGED <<requestVars, files, clock>>

\* lines 220-223: os.remove, any exception swallowed
SweepRemove(i) ==
    /\ sweeps[i].pc = "remove"
    /\ files' = [files EXCEPT ![sweeps[i].cur] = Absent]
    /\ sweeps' = [sweeps EXCEPT ![i].pc = "next"]
    /\ UNCHANGED <<requestVars, clock>>

\* time passes.  A step of the clock is a quarter of an hour; a request and
\* a sweep take far less, so the clock steps between them, not during them.
Advance ==
    /\ clock < MaxTicks * Tick
    /\ pc = "idle"
    /\ \A i \in DOMAIN sweeps : sweeps[i].pc \in {"done", "raised"}
    /\ clock' = clock + Tick
    /\ UNCHANGED <<requestVars, files, sweeps>>

\* one request after another, whatever tshark prints; the scheduled sweeps
\* have not started yet
Next ==
    \/ \E name \in UploadNames : Accept(name)
    \/ GetProtocolStats
    \/ GetExpertInfo
    \/ GetConversations
    \/ Analyze
    \/ GenerateReport

Spec == Init /\ [][Next]_vars

\* the requests together with the sweeps and the clock; tshark prints one
\* fixed text per report mode, the sweep never reads them
ServiceNext ==
    \/ \E name \in UploadNames : Accept(name)
    \/ GetProtocolStats /\ proto_stats' \in {<<>>, ExampleHierarchy}
    \/ GetExpertInfo /\ expert_info' = <<>>
    \/ GetConversations /\ conv_stats' = <<>>
    \/ Analyze
    \/ GenerateReport
    \/ \E i \in DOMAIN sweeps : SweepStart(i)
    \/ \E i \in DOMAIN sweeps : SweepNext(i)
    \/ \E i \in DOMAIN sweeps : SweepStat(i)
    \/ \E i \in DOMAIN sweeps : SweepRemove(i)
    \/ Advance

SpecService == Init /\ [][ServiceNext]_vars

(***************************************************************************)
(* Claims about calculate_risk (SpecRisk)                                  *)
(***************************************************************************)
\* the number of lines of a text: one more than its line feeds
LineCount(s) == 1 + Cardinality({i \in 1..Len(s) : s[i] = NL})

HasCritical == Contains(expert_info, MarkerError)
HasWarning == Contains(expert_info, MarkerWarn)
HasLegacy == Contains(proto_stats, MarkerTelnet) \/ Contains(proto_stats, MarkerIRC)
HasDnsOnly == Contains(proto_stats, MarkerDNS) /\ LineCount(proto_stats) < 5

Contribution1 == IF HasCritical THEN 40 ELSE IF HasWarning THEN 20 ELSE 0
Contribution2 == IF HasLegacy THEN 30 ELSE 0
Contribution3 == IF HasDnsOnly THEN 15 ELSE 0

\* C1: the returned score is an integer in [0,100] and the level is fixed by
\* the returned score: High iff score >= 70, Medium iff 30 <= score < 70,
\* Low iff score < 30.
C1_ScoreRangeAndLevel ==
    pc = "done" =>
        /\ risk_analysis.score \in 0..100
        /\ risk_analysis.level \in {"Low", "Medium", "High"}
        /\ risk_analysis.level = "High" <=> risk_analysis.score >= 70
        /\ risk_analysis.level = "Medium" <=>
               (30 <= risk_analysis.score /\ risk_analysis.score < 70)
        /\ risk_analysis.level = "Low" <=> risk_analysis.score < 30

\* a score exactly on the High threshold: critical diagnostics and a legacy
\* protocol, no DNS-only contribution
C1_Witness ==
    /\ pc = "done"
    /\ risk_analysis.score = 70
    /\ risk_analysis.level = "High"

\* C2: the score is min(c1 + c2 + c3, 100) with c1 = 40 on the critical
\* marker, else 20 on the warning marker, else 0; c2 = 30 on a legacy marker;
\* c3 = 15 on the DNS marker in a text of fewer than 5 lines.  Empty
\* diagnostics with a legacy marker and the DNS-only condition score 45,
\* Medium; a warning marker alone scores 20, Low.
C2_ScoreIsCappedSum ==
    pc = "done" =>
        /\ risk_analysis.score
               = Min(Contribution1 + Contribution2 + Contribution3, 100)
        /\ (expert_info = <<>> /\ proto_stats = join(<<MarkerTelnet, MarkerDNS>>))
               => (risk_analysis.score = 45 /\ risk_analysis.level = "Medium")
        /\ (expert_info = MarkerWarn \o <<"i", "n", "g">>
               /\ proto_stats = <<"d", "n", "s">>)
               => (risk_analysis.score = 20 /\ risk_analysis.level = "Low")
        /\ (HasCritical /\ HasWarning /\ ~HasLegacy /\ ~HasDnsOnly)
               => risk_analysis.score = 40

\* both diagnostic markers present: only the critical contribution counts
C2_Witness ==
    /\ pc = "done"
    /\ HasCritical /\ HasWarning /\ HasLegacy /\ HasDnsOnly
    /\ risk_analysis.score = 85

\* the reasons of the fired rules, in rule order
ExpectedReasons ==
    (IF HasCritical THEN <<ReasonError>>
     ELSE IF HasWarning THEN <<ReasonWarn>> ELSE <<>>)
    \o (IF HasLegacy THEN <<ReasonLegacy>> ELSE <<>>)
    \o (IF HasDnsOnly THEN <<ReasonDNS>> ELSE <<>>)

\* C3: the reasons list is never empty; it holds exactly the reasons of the
\* rules that fired, each once, in rule order, and exactly the one default
\* entry when no rule fired.
C3_Reasons ==
    pc = "done" =>
        LET rs == risk_analysis.reasons
        IN  /\ rs # <<>>
            /\ \A i, j \in 1..Len(rs) : i # j => rs[i] # rs[j]
            /\ ExpectedReasons # <<>> => rs = ExpectedReasons
            /\ ExpectedReasons = <<>> => rs = <<ReasonNone>>

\* all three rules fired
C3_Witness ==
    /\ pc = "done"
    /\ risk_analysis.reasons = <<ReasonWarn, ReasonLegacy, ReasonDNS>>

(***************************************************************************)
(* Claims about parse_phs (SpecPhs)                                        *)
(***************************************************************************)
\* the lines of the pool that the pattern matches, with their records
PhsMatchingLines == {LineTcp, LineUdpIndented}
PhsExpected(line) ==
    IF line = LineTcp
    THEN [protocol |-> <<"t", "c", "p">>, packets |-> 120, bytes |-> 15000]
    ELSE [protocol |-> <<"u", "d", "p">>, packets |-> 7, bytes |-> 90]

PhsMatchingIndexes(lines) ==
    {i \in 1..Len(lines) : lines[i] \in PhsMatchingLines}

\* the k-th smallest element of a set of indexes
Kth(idx, k) == CHOOSE i \in idx : Cardinality({j \in idx : j < i}) = k - 1

\* C5: parse_phs returns at most 8 records: the first min(8, m) of the m
\* matching lines in textual order, whatever their sizes; lines that do not
\* match are skipped; frame and byte counts are non-negative integers.
C5_FirstEightInOrder ==
    pc = "done" =>
        LET lines == split(proto_stats)
            idx == PhsMatchingIndexes(lines)
        IN  /\ Len(parsed_protocols) <= 8
            /\ Len(parsed_protocols) = Min(8, Cardinality(idx))
            /\ \A k \in 1..Len(parsed_protocols) :
                   /\ parsed_protocols[k] = PhsExpected(lines[Kth(idx, k)])
                   /\ parsed_protocols[k].packets \in Nat
                   /\ parsed_protocols[k].bytes \in Nat

\* nine matching lines, the ninth (dropped) one larger than the eight kept
C5_Witness ==
    /\ pc = "done"
    /\ LET lines == split(proto_stats)
       IN  /\ Cardinality(PhsMatchingIndexes(lines)) = 9
           /\ lines[9] = LineTcp
    /\ \A k \in 1..8 : parsed_protocols[k].bytes = 90

(***************************************************************************)
(* Claims about parse_conv (SpecConv)                                      *)
(***************************************************************************)
ConvExpected(line) ==
    IF line = LineConvFill
    THEN [src |-> Ip1, dst |-> Ip2, packets |-> 3, bytes |-> 300,
          total_packets |-> 5, total_bytes |-> 500]
    ELSE IF line = LineConvTie
    THEN [src |-> Ip3, dst |-> Ip1, packets |-> 1, bytes |-> 100,
          total_packets |-> 2, total_bytes |-> 500]
    ELSE [src |-> Ip2, dst |-> Ip3, packets |-> 9, bytes |-> 900,
          total_packets |-> 80, total_bytes |-> 50000]

ConvMatchingIndexes(lines) ==
    {i \in 1..Len(lines) : lines[i] \in {LineConvFill, LineConvTie, LineConvBig}}

\* the place of matching line i in the descending order of total_bytes that
\* keeps ties in order of appearance
ConvRank(lines, idx, i) ==
    LET bytes(j) == ConvExpected(lines[j]).total_bytes
    IN  1 + Cardinality({j \in idx : \/ bytes(j) > bytes(i)
                                     \/ (bytes(j) = bytes(i) /\ j < i)})

\* C6: parse_conv returns at most 10 records in non-increasing total_bytes;
\* every matching line left out has total_bytes <= that of every returned
\* record; records with equal total_bytes keep their order of appearance.
C6_TopTenStable ==
    pc = "done" =>
        LET lines == split(conv_stats)
            idx == ConvMatchingIndexes(lines)
        IN  /\ Len(parsed_hosts) <= 10
            /\ Len(parsed_hosts) = Min(10, Cardinality(idx))
            /\ \A a, b \in 1..Len(parsed_hosts) :
                   a < b => parsed_hosts[a].total_bytes >= parsed_hosts[b].total_bytes
            /\ \A i \in idx :
                   IF ConvRank(lines, idx, i) <= 10
                   THEN parsed_hosts[ConvRank(lines, idx, i)] = ConvExpected(lines[i])
                   ELSE \A k \in 1..Len(parsed_hosts) :
                            ConvExpected(lines[i]).total_bytes
                                <= parsed_hosts[k].total_bytes

\* more than ten conversations, the largest one on the last line, and a tie
\* between different host pairs among the rest
C6_Witness ==
    /\ pc = "done"
    /\ LET lines == split(conv_stats)
       IN  /\ Cardinality(ConvMatchingIndexes(lines)) > 10
           /\ lines[1] = LineConvTie
           /\ lines[Len(lines)] = LineConvBig
    /\ parsed_hosts[1].total_bytes = 50000
    /\ parsed_hosts[2] = ConvExpected(LineConvTie)
    /\ parsed_hosts[3] = ConvExpected(LineConvFill)

(***************************************************************************)
(* Claims about the request pipeline (Spec)                                *)
(***************************************************************************)
\* C4: for the hierarchy text "tcp frames:120 bytes:15000" / "dns frames:5
\* bytes:400" (two lines, no legacy marker) the DNS-only rule fires and adds
\* 15 to the score, and parse_phs returns the records [tcp,120,15000] and
\* [dns,5,400] in that order.
C4_ExampleOne ==
    (pc = "pdf" /\ proto_stats = ExampleHierarchy) =>
        /\ \E k \in 1..Len(risk_analysis.reasons) :
               risk_analysis.reasons[k] = ReasonDNS
        /\ risk_analysis.score
               = (IF Contains(expert_info, MarkerError) THEN 40 ELSE 0) + 15
        /\ parsed_protocols
               = <<[protocol |-> <<"t", "c", "p">>, packets |-> 120, bytes |-> 15000],
                   [protocol |-> <<"d", "n", "s">>, packets |-> 5, bytes |-> 400]>>

ReportModes == <<"phs", "expert", "conv">>

InvocationFailed == \E k \in 1..Len(calls) : ~calls[k].ok

\* C8: within a request the three report modes are invoked at most once each,
\* in the order hierarchy, expert, conversations; once an invocation fails no
\* further invocation, parser, scorer or report synthesis runs, no file is
\* written, and the caller gets an error payload with a message.
C8_SingleAttemptFailFast ==
    /\ [](/\ Len(calls) <= 3
          /\ \A k \in 1..Len(calls) : calls[k].mode = ReportModes[k]
          /\ InvocationFailed =>
                /\ \A k \in 1..Len(calls) : calls[k].ok <=> k < Len(calls)
                /\ pc = "idle"
                /\ response.status = "error"
                /\ "message" \in DOMAIN response
                /\ risk_analysis = NoRisk
                /\ parsed_protocols = <<>>
                /\ parsed_hosts = <<>>
                /\ data = NoData
                /\ story = <<>>)
    /\ [][InvocationFailed' => (files' = files /\ sweeps' = sweeps)]_vars

\* the second invocation failed after the first one succeeded
C8_Witness ==
    /\ Len(calls) = 2
    /\ calls[1].ok /\ ~calls[2].ok
    /\ response.status = "error"

(***************************************************************************)
(* Claims about generate_pdf_file (SpecPdf)                                *)
(***************************************************************************)
\* the flowables after the heading of the top-talkers section
TopTalkersRendered ==
    LET k == CHOOSE i \in 1..Len(story) :
                 /\ story[i].kind = "Paragraph"
                 /\ story[i].style = "Heading2"
                 /\ \A j \in (i + 1)..Len(story) :
                        ~(story[j].kind = "Paragraph" /\ story[j].style = "Heading2")
    IN  SubSeq(story, k + 1, Len(story))

\* C9: with no conversation records (empty or absent) the top-talkers
\* section holds a placeholder line; with records it holds a table of one
\* header row and one row per record, in the given order.
C9_PlaceholderOrTable ==
    pc = "done" =>
        LET hosts == Get(data, "top_talkers", <<>>)
            sect == TopTalkersRendered
        IN  /\ Len(sect) = 1
            /\ hosts = <<>> => sect[1].kind = "Paragraph"
            /\ hosts # <<>> =>
                   /\ sect[1].kind = "Table"
                   /\ Len(sect[1].rows) = 1 + Len(hosts)
                   /\ sect[1].rows[1] = TableHeader
                   /\ \A i \in 1..Len(hosts) :
                          /\ sect[1].rows[i + 1][1] = html_escape(hosts[i].src)
                          /\ sect[1].rows[i + 1][2] = html_escape(hosts[i].dst)

(***************************************************************************)
(* Claims about the retention sweep (SpecService)                          *)
(***************************************************************************)
\* C7: a run of cleanup_old_files never raises, whatever other sweeps and
\* requests do to the directory between its listing, its is-file check, its
\* modification-time read and its delete.
C7_SweepNeverRaises ==
    \A i \in DOMAIN sweeps : sweeps[i].pc # "raised"

\* C10: a file is deleted only if, at the moment of the deletion, its
\* modification time is older than the retention window; a file a request
\* has just written is never removed.
C10_OnlyStaleFilesDeleted ==
    [][\A f \in FileNames :
          (files[f] # Absent /\ files'[f] = Absent)
              => files[f] < clock - RetentionSeconds]_vars

====
